---- MODULE Spec2Model ----
(***************************************************************************)
(* Model of recover_media.py: the MBDB manifest decoder (getint,           *)
(* getstring, process_mbdb_file), the storage-id derivation and the        *)
(* recovery loop of main.                                                  *)
(*                                                                         *)
(* Bytes are integers 0..255; a bytes object is a sequence of them.  A     *)
(* Python str is a sequence of Unicode code points.  Python offsets are    *)
(* 0-based: the byte at offset o of data is data[o + 1].                   *)
(***************************************************************************)
EXTENDS Integers, Sequences, FiniteSets, TLC

VARIABLES
    data,            \* bytes of Manifest.mbdb (f.read())
    backup_files,    \* names of the files present in the backup directory
    pc,              \* position of the run
    error,           \* the exception that ended the run, or "none"
    offset,          \* cursor of process_mbdb_file
    mbdb,            \* dict start_offset => fileinfo, in insertion order
    mbdx,            \* global dict start_offset => storage id, in insertion order
    idx,             \* number of mbdb items main's loop has consumed
    media_recovered, \* main's counter
    seen_dates,      \* main's dict date => last number handed out
    dest_files,      \* files written into dest_folder: destination path => content
    stdout,          \* lines printed on standard output
    stderr,          \* lines printed on standard error
    attempts,        \* log of main's shutil.copy calls: offset, paths, outcome
    arg,             \* the string a stand-alone getstring call is given, encoded
    ret              \* value returned by a stand-alone getstring call

vars == <<data, backup_files, pc, error, offset, mbdb, mbdx, idx, media_recovered,
          seen_dates, dest_files, stdout, stderr, attempts, arg, ret>>

(***************************************************************************)
(* Bounds of the inputs explored.                                          *)
(***************************************************************************)
MaxRecords == 3
MaxStrLen == 3
MaxPad == 2

Min(a, b) == IF a < b THEN a ELSE b
Max(a, b) == IF a > b THEN a ELSE b

(***************************************************************************)
(* Python primitives used by the program.                                  *)
(***************************************************************************)
\* data[lo:hi] for 0 <= lo: the slice is clamped to the object, it never raises.
Slice(s, lo, hi) == SubSeq(s, Min(lo, Len(s)) + 1, Min(hi, Len(s)))

\* The result of a call that raised IndexError (data[offset] past the end).
IndexError == [err |-> TRUE, value |-> 0, offset |-> 0]

\* getint: big-endian integer of intsize bytes; data[offset] raises IndexError
\* when offset is not inside data.
RECURSIVE getintLoop(_, _, _, _)
getintLoop(d, value, off, intsize) ==
    IF intsize > 0
    THEN IF off >= Len(d)
         THEN IndexError
         ELSE getintLoop(d, value * 256 + d[off + 1], off + 1, intsize - 1)
    ELSE [err |-> FALSE, value |-> value, offset |-> off]

getint(d, off, intsize) == getintLoop(d, 0, off, intsize)

\* getstring with the blank-string test made on the first byte alone.
getstring_first_byte(d, off) ==
    IF off >= Len(d) THEN IndexError
    ELSE IF d[off + 1] = 255
         THEN [err |-> FALSE, value |-> <<>>, offset |-> off + 2]
    ELSE LET r == getint(d, off, 2) IN
         IF r.err THEN IndexError
         ELSE [err |-> FALSE,
               value |-> Slice(d, r.offset, r.offset + r.value),
               offset |-> r.offset + r.value]

\* getstring: 0xFF 0xFF is the blank string; otherwise a 2-byte length and that
\* many bytes, sliced (so clamped) out of data.
getstring(d, off) ==
    IF off >= Len(d) THEN IndexError
    ELSE IF d[off + 1] = 255 /\ off + 1 >= Len(d) THEN IndexError
    ELSE IF d[off + 1] = 255 /\ d[off + 2] = 255
         THEN [err |-> FALSE, value |-> <<>>, offset |-> off + 2]
    ELSE LET r == getint(d, off, 2) IN
         IF r.err THEN IndexError
         ELSE [err |-> FALSE,
               value |-> Slice(d, r.offset, r.offset + r.value),
               offset |-> r.offset + r.value]

\* One step of the UTF-8 decoder at 1-based position i: is byte i present and
\* inside lo..hi (a continuation byte of the stated range)?
IsCont(b, i, lo, hi) == i <= Len(b) /\ b[i] >= lo /\ b[i] <= hi

\* The marker a decoding error leaves: the place where the error handler runs.
DecodeErr == 0 - 1

\* bytes.decode("utf-8", ...): the code points of b, with DecodeErr at each
\* maximal invalid subpart (one per call of the error handler).
RECURSIVE utf8_decode(_, _)
utf8_decode(b, i) ==
    IF i > Len(b) THEN <<>>
    ELSE LET c == b[i] IN
      IF c < 128 THEN <<c>> \o utf8_decode(b, i + 1)
      ELSE IF c >= 194 /\ c <= 223 THEN
        IF IsCont(b, i + 1, 128, 191)
        THEN <<(c % 32) * 64 + (b[i + 1] % 64)>> \o utf8_decode(b, i + 2)
        ELSE <<DecodeErr>> \o utf8_decode(b, i + 1)
      ELSE IF c >= 224 /\ c <= 239 THEN
        LET lo2 == IF c = 224 THEN 160 ELSE 128
            hi2 == IF c = 237 THEN 159 ELSE 191
        IN  IF ~IsCont(b, i + 1, lo2, hi2)
            THEN <<DecodeErr>> \o utf8_decode(b, i + 1)
            ELSE IF ~IsCont(b, i + 2, 128, 191)
            THEN <<DecodeErr>> \o utf8_decode(b, i + 2)
            ELSE <<(c % 16) * 4096 + (b[i + 1] % 64) * 64 + (b[i + 2] % 64)>>
                 \o utf8_decode(b, i + 3)
      ELSE IF c >= 240 /\ c <= 244 THEN
        LET lo2 == IF c = 240 THEN 144 ELSE 128
            hi2 == IF c = 244 THEN 143 ELSE 191
        IN  IF ~IsCont(b, i + 1, lo2, hi2)
            THEN <<DecodeErr>> \o utf8_decode(b, i + 1)
            ELSE IF ~IsCont(b, i + 2, 128, 191)
            THEN <<DecodeErr>> \o utf8_decode(b, i + 2)
            ELSE IF ~IsCont(b, i + 3, 128, 191)
            THEN <<DecodeErr>> \o utf8_decode(b, i + 3)
            ELSE <<(c % 8) * 262144 + (b[i + 1] % 64) * 4096
                   + (b[i + 2] % 64) * 64 + (b[i + 3] % 64)>>
                 \o utf8_decode(b, i + 4)
      ELSE <<DecodeErr>> \o utf8_decode(b, i + 1)

\* b.decode("utf-8", "replace"): every invalid subpart becomes U+FFFD.
decode_replace(b) ==
    LET s == utf8_decode(b, 1)
    IN  [i \in 1..Len(s) |-> IF s[i] = DecodeErr THEN 65533 ELSE s[i]]

\* b.decode("utf-8") raises UnicodeDecodeError unless b is valid UTF-8.
decode_strict_raises(b) ==
    LET s == utf8_decode(b, 1) IN \E i \in 1..Len(s) : s[i] = DecodeErr

\* The UTF-8 bytes of one code point.
utf8_bytes(cp) ==
    IF cp < 128 THEN <<cp>>
    ELSE IF cp < 2048 THEN <<192 + (cp \div 64), 128 + (cp % 64)>>
    ELSE IF cp < 65536
         THEN <<224 + (cp \div 4096), 128 + ((cp \div 64) % 64), 128 + (cp % 64)>>
    ELSE <<240 + (cp \div 262144), 128 + ((cp \div 4096) % 64),
           128 + ((cp \div 64) % 64), 128 + (cp % 64)>>

\* s.encode("utf-8")
RECURSIVE encode_utf8(_)
encode_utf8(s) ==
    IF s = <<>> THEN <<>> ELSE utf8_bytes(Head(s)) \o encode_utf8(Tail(s))

\* str.lower() on the code points the explored inputs decode to: ASCII and
\* Latin-1 capitals have a lowercase 32 above; U+FFFD and the rest are unchanged.
lower_cp(c) ==
    IF c >= 65 /\ c <= 90 THEN c + 32
    ELSE IF c >= 192 /\ c <= 222 /\ c # 215 THEN c + 32
    ELSE c

lower(s) == [i \in 1..Len(s) |-> lower_cp(s[i])]

\* s.find(ch): the lowest 0-based index of the code point, or -1.
find(s, ch) ==
    IF \E i \in 1..Len(s) : s[i] = ch
    THEN (CHOOSE i \in 1..Len(s) : s[i] = ch /\ \A j \in 1..(i - 1) : s[j] # ch) - 1
    ELSE 0 - 1

\* s.rfind(ch): the highest 0-based index of the code point, or -1.
rfind(s, ch) ==
    IF \E i \in 1..Len(s) : s[i] = ch
    THEN (CHOOSE i \in 1..Len(s) : s[i] = ch /\ \A j \in (i + 1)..Len(s) : s[j] # ch) - 1
    ELSE 0 - 1

\* s[k:] with Python's treatment of a negative start.
SliceFrom(s, k) ==
    LET start == IF k < 0 THEN Max(Len(s) + k, 0) ELSE Min(k, Len(s))
    IN  SubSeq(s, start + 1, Len(s))

\* extension(s): the decoded filename from its last '.', lowercased.
extension(b) ==
    LET s == decode_replace(b) IN lower(SliceFrom(s, rfind(s, 46)))

\* hashlib.sha1(x).hexdigest(): SHA-1 is not computed; the digest is the tagged
\* input, so two digests are equal exactly when the hashed bytes are equal.
sha1_hexdigest(x) == <<"sha1", x>>

\* The storage id of a record: lines 67-69.
storage_id(fileinfo) ==
    LET fullpath == decode_replace(fileinfo.domain \o <<45>> \o fileinfo.filename)
    IN  sha1_hexdigest(encode_utf8(fullpath))

(***************************************************************************)
(* Python dicts keep insertion order: a dict is a sequence of <<key,       *)
(* value>> pairs, and assigning to a key that is present replaces its      *)
(* value where it stands.                                                  *)
(***************************************************************************)
dict_has(dct, k) == \E i \in 1..Len(dct) : dct[i][1] = k

dict_get(dct, k) == dct[CHOOSE i \in 1..Len(dct) : dct[i][1] = k][2]

dict_set(dct, k, v) ==
    IF dict_has(dct, k)
    THEN [i \in 1..Len(dct) |-> IF dct[i][1] = k THEN <<k, v>> ELSE dct[i]]
    ELSE Append(dct, <<k, v>>)

(***************************************************************************)
(* process_mbdb_file: one record.                                          *)
(***************************************************************************)
\* The fields of a record in the order lines 41-56 read them: a name and the
\* width of the integer, 0 for a string read by getstring.
RecordFields ==
    << <<"domain", 0>>, <<"filename", 0>>, <<"linktarget", 0>>,
       <<"datahash", 0>>, <<"unknown1", 0>>, <<"mode", 2>>, <<"unknown2", 4>>,
       <<"unknown3", 4>>, <<"userid", 4>>, <<"groupid", 4>>, <<"mtime", 4>>,
       <<"atime", 4>>, <<"ctime", 4>>, <<"filelen", 8>>, <<"flag", 1>>,
       <<"numprops", 1>> >>

\* Lines 41-56 from field k on: each read stores its value in fileinfo and
\* moves the offset; the first read that raises ends the record.
RECURSIVE read_fields(_, _, _, _)
read_fields(d, off, k, fileinfo) ==
    IF k > Len(RecordFields)
    THEN [err |-> FALSE, value |-> fileinfo, offset |-> off]
    ELSE LET name == RecordFields[k][1]
             width == RecordFields[k][2]
             r == IF width = 0 THEN getstring(d, off) ELSE getint(d, off, width)
         IN  IF r.err THEN IndexError
             ELSE read_fields(d, r.offset, k + 1, (name :> r.value) @@ fileinfo)

\* Lines 58-64: n more name/value pairs, decoded and stored in the dict.
RECURSIVE read_properties(_, _, _, _)
read_properties(d, off, n, properties) ==
    IF n = 0
    THEN [err |-> FALSE, value |-> properties, offset |-> off]
    ELSE LET propname == getstring(d, off) IN
         IF propname.err THEN IndexError
         ELSE LET propval == getstring(d, propname.offset) IN
              IF propval.err THEN IndexError
              ELSE read_properties(d, propval.offset, n - 1,
                       dict_set(properties, decode_replace(propname.value),
                                decode_replace(propval.value)))

\* One iteration of the while loop of lines 38-69, up to the finished fileinfo.
read_record(d, off) ==
    LET f == read_fields(d, off, 1, ("start_offset" :> off)) IN
    IF f.err THEN IndexError
    ELSE LET p == read_properties(d, f.offset, f.value.numprops, <<>>) IN
         IF p.err THEN IndexError
         ELSE [err |-> FALSE,
               value |-> ("properties" :> p.value) @@ f.value,
               offset |-> p.offset]

(***************************************************************************)
(* main                                                                    *)
(***************************************************************************)
media_extensions ==
    << <<46, 106, 112, 103>>,       \* .jpg
       <<46, 106, 112, 101, 103>>,  \* .jpeg
       <<46, 112, 110, 103>>,       \* .png
       <<46, 116, 105, 102, 102>>,  \* .tiff
       <<46, 104, 101, 105, 99>>,   \* .heic
       <<46, 109, 111, 118>>,       \* .mov
       <<46, 109, 112, 52>>,        \* .mp4
       <<46, 109, 112, 51>>,        \* .mp3
       <<46, 112, 100, 102>> >>     \* .pdf

\* ext in media_extensions
is_media(ext) == \E i \in 1..Len(media_extensions) : media_extensions[i] = ext

\* dt.fromtimestamp(ctime).strftime("%Y_%m_%d"): the calendar day of the
\* timestamp, as the day's number (the local zone is taken to be UTC; the
\* rendering of a day is one-to-one).
date_of(ctime) == ctime \div 86400

\* f"{date}_{seen_dates[date]}{ext}" inside dest_folder
dest_path_of(date, n, ext) == [date |-> date, n |-> n, ext |-> ext]

\* The counter of a date set to 1 whenever the date comes up.
bump_date_reset(dates, date) == dict_set(dates, date, 1)

\* lines 134-137
bump_date(dates, date) ==
    IF dict_has(dates, date)
    THEN dict_set(dates, date, dict_get(dates, date) + 1)
    ELSE dict_set(dates, date, 1)

(***************************************************************************)
(* The manifests explored: records written in the layout                   *)
(* process_mbdb_file reads, whole or cut short.                            *)
(***************************************************************************)
\* intsize bytes, big-endian: what getint reads back.
RECURSIVE EncodeInt(_, _)
EncodeInt(v, intsize) ==
    IF intsize = 0 THEN <<>> ELSE EncodeInt(v \div 256, intsize - 1) \o <<v % 256>>

\* A string with its 2-byte length prefix.
EncodeLenPrefixed(s) == EncodeInt(Len(s), 2) \o s

\* A string as the backup tool writes it: the blank string is 0xFF 0xFF.
EncodeStr(s) == IF s = <<>> THEN <<255, 255>> ELSE EncodeLenPrefixed(s)

RECURSIVE EncodeProps(_)
EncodeProps(props) ==
    IF props = <<>> THEN <<>>
    ELSE EncodeStr(Head(props)[1]) \o EncodeStr(Head(props)[2]) \o EncodeProps(Tail(props))

\* One record: a regular file (mode 0x81A4) of user and group 501.
EncodeRecord(r) ==
    EncodeStr(r.domain) \o EncodeStr(r.filename) \o EncodeStr(<<>>)
    \o EncodeStr(<<>>) \o EncodeStr(<<>>)
    \o EncodeInt(33188, 2) \o EncodeInt(0, 4) \o EncodeInt(0, 4)
    \o EncodeInt(501, 4) \o EncodeInt(501, 4)
    \o EncodeInt(r.ctime, 4) \o EncodeInt(r.ctime, 4) \o EncodeInt(r.ctime, 4)
    \o EncodeInt(Len(r.filename), 8) \o <<4>> \o <<Len(r.props)>>
    \o EncodeProps(r.props)

RECURSIVE EncodeRecords(_)
EncodeRecords(recs) ==
    IF recs = <<>> THEN <<>> ELSE EncodeRecord(Head(recs)) \o EncodeRecords(Tail(recs))

\* b"mbdb"
Magic == <<109, 98, 100, 98>>

EncodeManifest(recs) == Magic \o <<5, 0>> \o EncodeRecords(recs)

SeqsUpTo(S, n) == UNION {[1..k -> S] : k \in 0..n}

InputRecord(d, f, c, p) == [domain |-> d, filename |-> f, ctime |-> c, props |-> p]

\* The storage ids of the records of a manifest.
IdsOf(recs) == {storage_id(recs[i]) : i \in 1..Len(recs)}

\* Recovery runs: up to MaxRecords records over two days (86399 is the last
\* second of day 0, 86400 the first of day 1), named a.jpg, b.jpg, \xff.PNG or
\* a.txt, with any part of their blobs present in the backup directory.
OrchRecords ==
    {InputRecord(<<68>>, <<97, 46, 106, 112, 103>>, 86399, <<>>),
     InputRecord(<<68>>, <<97, 46, 106, 112, 103>>, 86400, <<>>),
     InputRecord(<<68>>, <<98, 46, 106, 112, 103>>, 86400, <<>>),
     InputRecord(<<68>>, <<255, 46, 80, 78, 71>>, 86400, <<>>),
     InputRecord(<<68>>, <<97, 46, 116, 120, 116>>, 86400, <<>>)}

OrchInputs ==
    UNION {{[data |-> EncodeManifest(m), files |-> fs] : fs \in SUBSET IdsOf(m)} :
              m \in SeqsUpTo(OrchRecords, MaxRecords)}

\* Filenames: a stem followed by an ending.
Stems == {<<>>, <<97>>, <<97, 46, 98>>, <<195, 137>>, <<255>>}

Endings ==
    {<<46, 106, 112, 103>>, <<46, 106, 112, 101, 103>>, <<46, 112, 110, 103>>,
     <<46, 116, 105, 102, 102>>, <<46, 104, 101, 105, 99>>, <<46, 109, 111, 118>>,
     <<46, 109, 112, 52>>, <<46, 109, 112, 51>>, <<46, 112, 100, 102>>,
     <<46, 74, 80, 71>>, <<46, 74, 112, 103>>, <<46, 77, 111, 86>>,
     <<46, 116, 120, 116>>, <<106, 112, 103>>, <<46, 106, 112, 103, 46>>,
     <<46, 106, 112>>, <<46, 106, 112, 103, 120>>, <<46>>, <<>>,
     <<46, 106, 112, 195, 137>>, <<46, 106, 112, 103, 128>>}

\* Property lists: none, one, a repeated name, two names, and two names that
\* differ only in an invalid byte.
PropLists ==
    {<<>>,
     << <<<<107>>, <<118>>>> >>,
     << <<<<107>>, <<118>>>>, <<<<107>>, <<119>>>> >>,
     << <<<<107>>, <<118>>>>, <<<<107, 50>>, <<>>>> >>,
     << <<<<128>>, <<118>>>>, <<<<129>>, <<119>>>> >>}

\* One record of any name and property list, its blob present or not.
DecodeInputs ==
    {[data |-> EncodeManifest(<<r>>), files |-> {}] :
        r \in {InputRecord(d, st \o en, 86400, p) :
                  d \in {<<68>>, <<128>>}, st \in Stems, en \in Endings, p \in PropLists}}
    \cup
    {[data |-> EncodeManifest(<<r>>), files |-> IdsOf(<<r>>)] :
        r \in {InputRecord(<<68>>, st \o en, 86400, <<>>) : st \in Stems, en \in Endings}}

\* Two records whose domains and filenames hold valid and invalid UTF-8.
HashRecords ==
    {InputRecord(d, f, 86400, <<>>) :
        d \in {<<68>>, <<128>>, <<255>>, <<239, 191, 189>>, <<195, 169>>},
        f \in {<<97, 46, 106, 112, 103>>, <<255, 46, 80, 78, 71>>}}

HashInputs ==
    {[data |-> EncodeManifest(<<r1, r2>>), files |-> IdsOf(<<r1, r2>>)] :
        r1 \in HashRecords, r2 \in HashRecords}

\* Damaged manifests: two records, the second with two properties, cut after
\* any number of bytes; and a manifest whose first byte is not 'm'.
DamagedRecords ==
    << InputRecord(<<68>>, <<97, 46, 106, 112, 103>>, 86399, <<>>),
       InputRecord(<<68>>, <<97, 46, 109, 111, 118>>, 86400,
                   << <<<<107>>, <<118>>>>, <<<<107, 50>>, <<119, 119>>>> >>) >>

DamagedBase == EncodeManifest(DamagedRecords)

DamagedInputs ==
    {[data |-> SubSeq(DamagedBase, 1, k), files |-> IdsOf(DamagedRecords)] :
        k \in 0..Len(DamagedBase)}
    \cup {[data |-> <<77>> \o Tail(DamagedBase), files |-> IdsOf(DamagedRecords)]}

Inputs == OrchInputs \cup DecodeInputs \cup HashInputs \cup DamagedInputs

(***************************************************************************)
(* The run of main.                                                        *)
(***************************************************************************)
Init ==
    /\ \E in \in Inputs : data = in.data /\ backup_files = in.files
    /\ pc = "start"
    /\ error = "none"
    /\ offset = 0
    /\ mbdb = <<>>
    /\ mbdx = <<>>
    /\ idx = 0
    /\ media_recovered = 0
    /\ seen_dates = <<>>
    /\ dest_files = <<>>
    /\ stdout = <<>>
    /\ stderr = <<>>
    /\ attempts = <<>>
    /\ arg = <<>>
    /\ ret = <<>>

\* ReadManifest without the test of the magic.
ReadManifest_no_magic ==
    /\ pc = "start"
    /\ pc' = "parse"
    /\ offset' = 6
    /\ UNCHANGED <<data, backup_files, error, mbdb, mbdx, idx, media_recovered, seen_dates,
                   dest_files, stdout, stderr, attempts, arg, ret>>

\* Lines 31-36: read the file, check the magic, skip 6 bytes.
ReadManifest ==
    /\ pc = "start"
    /\ IF Slice(data, 0, 4) # Magic
       THEN pc' = "failed" /\ error' = "Exception" /\ UNCHANGED offset
       ELSE pc' = "parse" /\ offset' = 6 /\ UNCHANGED error
    /\ UNCHANGED <<data, backup_files, mbdb, mbdx, idx, media_recovered, seen_dates,
                   dest_files, stdout, stderr, attempts, arg, ret>>

\* Lines 38-69: one iteration of the while loop.  A read that raises ends
\* process_mbdb_file, and with it main.
ParseRecord ==
    /\ pc = "parse"
    /\ offset < Len(data)
    /\ LET r == read_record(data, offset) IN
       IF r.err
       THEN /\ pc' = "failed"
            /\ error' = "IndexError"
            /\ UNCHANGED <<offset, mbdb, mbdx>>
       ELSE /\ mbdb' = dict_set(mbdb, offset, r.value)
            /\ mbdx' = dict_set(mbdx, offset, storage_id(r.value))
            /\ offset' = r.offset
            /\ UNCHANGED <<pc, error>>
    /\ UNCHANGED <<data, backup_files, idx, media_recovered, seen_dates,
                   dest_files, stdout, stderr, attempts, arg, ret>>

\* Line 38 false, line 70, lines 119-125: the parse returns and main sets up.
ParseReturn ==
    /\ pc = "parse"
    /\ offset >= Len(data)
    /\ pc' = "main"
    /\ media_recovered' = 0
    /\ seen_dates' = <<>>
    /\ idx' = 0
    /\ UNCHANGED <<data, backup_files, error, offset, mbdb, mbdx,
                   dest_files, stdout, stderr, attempts, arg, ret>>

\* shutil.copy(src_path, dest_path), line 141: FileNotFoundError when the source
\* is not in the backup directory; otherwise the copy, or OSError when the
\* destination cannot be written (copy_ok is FALSE).
shutil_copy(src, copy_ok) ==
    IF src \notin backup_files THEN "missing"
    ELSE IF copy_ok THEN "copied"
    ELSE "oserror"

\* The counter incremented whatever the copy did.
recovered_after_any(count, outcome) == count + 1

\* Lines 141-143: media_recovered += 1 runs only when the copy did not raise.
recovered_after(count, outcome) ==
    IF outcome = "copied" THEN count + 1 ELSE count

\* Lines 127-148 for the next item of mbdb.  The result names the new value of
\* every variable main touches.
main_step(copy_ok) ==
    LET off == mbdb[idx + 1][1]
        fileinfo == mbdb[idx + 1][2]
        same == [pc |-> pc, error |-> error, mbdb |-> mbdb, seen_dates |-> seen_dates,
                 media_recovered |-> media_recovered, dest_files |-> dest_files,
                 stdout |-> stdout, stderr |-> stderr, attempts |-> attempts]
    IN
    IF dict_has(mbdx, off)
    THEN LET fileID == dict_get(mbdx, off)
             tagged == [mbdb EXCEPT ![idx + 1] = <<off, ("fileID" :> fileID) @@ fileinfo>>]
             ext == extension(fileinfo.filename)
         IN
         IF is_media(ext)
         THEN LET date == date_of(fileinfo.ctime)
                  dates == bump_date(seen_dates, date)
                  dest_path == dest_path_of(date, dict_get(dates, date), ext)
                  outcome == shutil_copy(fileID, copy_ok)
                  tried == [same EXCEPT
                              !.mbdb = tagged,
                              !.seen_dates = dates,
                              !.dest_files = IF outcome = "copied"
                                             THEN dict_set(dest_files, dest_path, fileID)
                                             ELSE dest_files,
                              !.media_recovered = recovered_after(media_recovered, outcome),
                              !.attempts = Append(attempts,
                                  [offset |-> off, src |-> fileID, dest |-> dest_path,
                                   outcome |-> outcome])]
              IN
              IF outcome = "oserror"
              THEN [tried EXCEPT !.pc = "failed", !.error = "OSError"]
              ELSE IF outcome = "missing"
              THEN \* line 144 decodes the filename strictly inside the handler
                   IF decode_strict_raises(fileinfo.filename)
                   THEN [tried EXCEPT !.pc = "failed", !.error = "UnicodeDecodeError"]
                   ELSE [tried EXCEPT !.stdout =
                            Append(stdout, <<"Could not locate file", fileID,
                                             decode_replace(fileinfo.filename)>>)]
              ELSE tried
         ELSE [same EXCEPT !.mbdb = tagged]
    ELSE [same EXCEPT
             !.mbdb = [mbdb EXCEPT ![idx + 1] = <<off, ("fileID" :> "<nofileID>") @@ fileinfo>>],
             !.stderr = Append(stderr, <<"No fileID found for", off>>)]

ProcessRecord ==
    /\ pc = "main"
    /\ idx < Len(mbdb)
    /\ \E copy_ok \in BOOLEAN :
         LET n == main_step(copy_ok) IN
         /\ pc' = n.pc
         /\ error' = n.error
         /\ mbdb' = n.mbdb
         /\ seen_dates' = n.seen_dates
         /\ media_recovered' = n.media_recovered
         /\ dest_files' = n.dest_files
         /\ stdout' = n.stdout
         /\ stderr' = n.stderr
         /\ attempts' = n.attempts
    /\ idx' = idx + 1
    /\ UNCHANGED <<data, backup_files, offset, mbdx, arg, ret>>

\* Line 149: the loop is over, the count is printed.
Report ==
    /\ pc = "main"
    /\ idx = Len(mbdb)
    /\ stdout' = Append(stdout, <<"Recovered", media_recovered>>)
    /\ pc' = "done"
    /\ UNCHANGED <<data, backup_files, error, offset, mbdb, mbdx, idx, media_recovered,
                   seen_dates, dest_files, stderr, attempts, arg, ret>>

Next == ReadManifest \/ ParseRecord \/ ParseReturn \/ ProcessRecord \/ Report

Spec == Init /\ [][Next]_vars

(***************************************************************************)
(* getstring on its own: a string is encoded at some offset of a buffer    *)
(* and read back.                                                          *)
(***************************************************************************)
Fill(n, b) == [i \in 1..n |-> b]

\* The strings that are encoded, each described by its first bytes (head) and
\* the number of bytes 'A' that follow (fill): short strings over three bytes,
\* and long strings around the lengths whose prefix starts with 0xFF
\* (65280 = 0xFF00) up to the largest prefix, 0xFFFF.  sentinel: the two
\* sentinel bytes are given instead of a length-prefixed string.  tail: the
\* bytes that follow in the buffer.
StrInputs ==
    {[head |-> h, fill |-> 0, sentinel |-> FALSE, tail |-> t] :
        h \in SeqsUpTo({0, 65, 255}, MaxStrLen), t \in {<<>>, <<255>>}}
    \cup {[head |-> <<>>, fill |-> n, sentinel |-> FALSE, tail |-> t] :
        n \in {255, 256, 65279, 65280, 65534, 65535}, t \in {<<>>, <<255>>}}
    \cup {[head |-> <<>>, fill |-> 0, sentinel |-> TRUE, tail |-> t] :
        t \in {<<>>, <<255>>}}

\* The string an input describes.
StrOf(a) == a.head \o Fill(a.fill, 65)

\* The buffer getstring is called on: o bytes 0xFF, the encoded string, the tail.
BufferOf(a, o) ==
    Fill(o, 255)
    \o (IF a.sentinel THEN <<255, 255>> ELSE EncodeLenPrefixed(StrOf(a)))
    \o a.tail

InitStr ==
    /\ arg \in StrInputs
    /\ offset \in 0..MaxPad
    /\ data = <<>>
    /\ pc = "call"
    /\ ret = <<>>
    /\ backup_files = {}
    /\ error = "none"
    /\ mbdb = <<>>
    /\ mbdx = <<>>
    /\ idx = 0
    /\ media_recovered = 0
    /\ seen_dates = <<>>
    /\ dest_files = <<>>
    /\ stdout = <<>>
    /\ stderr = <<>>
    /\ attempts = <<>>

\* value, offset = getstring(buffer, offset)
CallGetstring ==
    /\ pc = "call"
    /\ ret' = getstring(BufferOf(arg, offset), offset)
    /\ pc' = "returned"
    /\ UNCHANGED <<data, backup_files, error, offset, mbdb, mbdx, idx, media_recovered,
                   seen_dates, dest_files, stdout, stderr, attempts, arg>>

NextStr == CallGetstring

SpecStr == InitStr /\ [][NextStr]_vars

(***************************************************************************)
(* Properties                                                              *)
(***************************************************************************)

\* C7 as stated: every string of 0..65535 bytes behind its 2-byte length is
\* read back unchanged with the offset moved by 2 + its length, and the two
\* sentinel bytes are read as the blank string with the offset moved by 2.
C7_RoundTripAnyLength ==
    pc = "returned" =>
        /\ ~ret.err
        /\ ret.value = StrOf(arg)
        /\ ret.offset = offset + 2 + (IF arg.sentinel THEN 0 ELSE Len(StrOf(arg)))

\* C7 amended: the round trip holds for strings of 0..65534 bytes (a length of
\* 65535 is written 0xFF 0xFF, which is the sentinel), and the sentinel is
\* read as the blank string with the offset moved by 2.
C7_RoundTrip ==
    (pc = "returned" /\ Len(StrOf(arg)) <= 65534) =>
        /\ ~ret.err
        /\ ret.value = StrOf(arg)
        /\ ret.offset = offset + 2 + (IF arg.sentinel THEN 0 ELSE Len(StrOf(arg)))

\* C7 witness: the string 0xFF 0x00 'A' has been read back from offset 2 of a
\* buffer that goes on after it.
C7_Witness ==
    /\ pc = "returned"
    /\ ~arg.sentinel
    /\ arg.head = <<255, 0, 65>>
    /\ arg.tail = <<255>>
    /\ offset = 2
    /\ ret = [err |-> FALSE, value |-> <<255, 0, 65>>, offset |-> 7]

(***************************************************************************)
(* Properties of a run of main.                                            *)
(***************************************************************************)
\* process_mbdb_file has returned its collection to main.
ParseReturned ==
    \/ pc \in {"main", "done"}
    \/ pc = "failed" /\ error \in {"UnicodeDecodeError", "OSError"}

\* process_mbdb_file has raised.
ParseFailed == pc = "failed" /\ error \in {"Exception", "IndexError"}

\* The fileinfo stored under a start offset.
RecordAt(off) == dict_get(mbdb, off)

\* C1: a parse that returns records has read exactly the buffer: the final
\* cursor is the buffer length, so no string field of a record declared more
\* bytes than the buffer held.
C1_NoSilentTruncation ==
    (ParseReturned /\ Len(mbdb) > 0) => offset = Len(data)

\* The dates main has numbered, the numbers written for a date, and the
\* successful copies of a date.
DatesTried == {attempts[i].dest.date : i \in 1..Len(attempts)}

SuffixesWritten(date) ==
    {dest_files[i][1].n : i \in {j \in 1..Len(dest_files) : dest_files[j][1].date = date}}

CopiedOn(date) ==
    {i \in 1..Len(attempts) :
        attempts[i].outcome = "copied" /\ attempts[i].dest.date = date}

\* C2: at the end of a run, the numbers of the files written for a date are
\* exactly 1..N, N being the number of records of that date that were copied.
C2_GapFree ==
    pc = "done" =>
        \A date \in DatesTried :
            SuffixesWritten(date) = 1..Cardinality(CopiedOn(date))

\* domain + b'-' + filename, as bytes.
RawPath(fileinfo) == fileinfo.domain \o <<45>> \o fileinfo.filename

\* C3: the storage id of every record is the digest of the raw bytes
\* domain + '-' + filename, so records with different raw paths never share
\* the hashed input.
C3_RawBytesHashed ==
    /\ \A i \in 1..Len(mbdx) :
          mbdx[i][2] = sha1_hexdigest(RawPath(RecordAt(mbdx[i][1])))
    /\ \A i, j \in 1..Len(mbdx) :
          RawPath(RecordAt(mbdx[i][1])) # RawPath(RecordAt(mbdx[j][1]))
              => mbdx[i][2] # mbdx[j][2]

\* main is about to process a media record whose blob is not in the backup.
AtMissingBlob ==
    /\ pc = "main"
    /\ idx < Len(mbdb)
    /\ is_media(extension(mbdb[idx + 1][2].filename))
    /\ dict_get(mbdx, mbdb[idx + 1][1]) \notin backup_files

\* C4: the step that meets a missing blob reports the record, leaves the
\* count unchanged and goes on to the next record.
C4_MissingBlobNotFatal ==
    [][AtMissingBlob =>
          /\ pc' = "main"
          /\ idx' = idx + 1
          /\ media_recovered' = media_recovered
          /\ Len(stdout') = Len(stdout) + 1]_vars

\* The n name/value pairs found at an offset, decoded, in the order read.
RECURSIVE PairsRead(_, _, _)
PairsRead(d, off, n) ==
    IF n = 0 THEN <<>>
    ELSE LET name == getstring(d, off)
             val == getstring(d, name.offset)
         IN  <<<<decode_replace(name.value), decode_replace(val.value)>>>>
             \o PairsRead(d, val.offset, n - 1)

\* The offset at which the properties of a record start.
PropsOffset(fileinfo) ==
    read_fields(data, fileinfo.start_offset, 1, ("start_offset" :> fileinfo.start_offset)).offset

\* C5: the properties of every record are its numprops pairs in the order
\* read, a repeated name included.
C5_AllPropertiesKept ==
    \A i \in 1..Len(mbdb) :
        LET fileinfo == mbdb[i][2] IN
        /\ Len(fileinfo.properties) = fileinfo.numprops
        /\ fileinfo.properties = PairsRead(data, PropsOffset(fileinfo), fileinfo.numprops)

\* main has done nothing yet: no copy, no storage id attached, nothing printed.
NothingRecovered ==
    /\ dest_files = <<>>
    /\ attempts = <<>>
    /\ stdout = <<>>
    /\ stderr = <<>>
    /\ seen_dates = <<>>
    /\ media_recovered = 0
    /\ idx = 0
    /\ \A i \in 1..Len(mbdb) : "fileID" \notin DOMAIN mbdb[i][2]

\* C6: as long as the parse has not returned, and for good once it has raised
\* (as it must when the first 4 bytes are not the magic), main has copied
\* nothing, attached no storage id and reported no count.
C6_ParseFailureAborts ==
    (pc \in {"start", "parse"} \/ ParseFailed \/ Slice(data, 0, 4) # Magic)
        => NothingRecovered

\* C6 witness: the parse raised after it had decoded a record whose blob is in
\* the backup directory.
C6_Witness ==
    /\ ParseFailed
    /\ error = "IndexError"
    /\ Len(mbdb) >= 1
    /\ mbdx[1][2] \in backup_files
    /\ is_media(extension(mbdb[1][2].filename))

\* C8: no two copy attempts of a run are given the same destination path.
C8_NoCollision ==
    \A i, j \in 1..Len(attempts) :
        i # j => attempts[i].dest # attempts[j].dest

\* C8 witness: three records of one date and one extension were numbered, the
\* blob of one of them missing.
C8_Witness ==
    \E i, j, k \in 1..Len(attempts) :
        /\ i < j /\ j < k
        /\ attempts[i].dest.date = attempts[j].dest.date
        /\ attempts[j].dest.date = attempts[k].dest.date
        /\ attempts[i].dest.ext = attempts[j].dest.ext
        /\ attempts[j].dest.ext = attempts[k].dest.ext
        /\ attempts[j].outcome = "missing"
        /\ attempts[k].outcome = "copied"

\* The allow-listed endings, as a set.
MediaEndings == {media_extensions[i] : i \in 1..Len(media_extensions)}

\* A filename is a media name when its decoded text has a '.', and the text
\* from its last '.' to the end is, letter case aside, an allow-listed ending.
MediaName(b) ==
    LET s == decode_replace(b) IN
    \E k \in 1..Len(s) :
        /\ s[k] = 46
        /\ \A j \in (k + 1)..Len(s) : s[j] # 46
        /\ \E e \in MediaEndings :
              /\ Len(e) = Len(s) - k + 1
              /\ \A j \in 1..Len(e) : lower_cp(s[k + j - 1]) = e[j]

\* main tried to copy the record stored under a start offset.
Attempted(off) == \E i \in 1..Len(attempts) : attempts[i].offset = off

\* C9: of the records main has processed, exactly those with a media name had
\* a copy attempted; nothing is copied, counted or reported but for an attempt.
C9_ExtensionFilter ==
    /\ \A i \in 1..Min(idx, Len(mbdb)) :
          Attempted(mbdb[i][1]) <=> MediaName(mbdb[i][2].filename)
    /\ \A i \in 1..Len(attempts) : MediaName(RecordAt(attempts[i].offset).filename)
    /\ Len(dest_files) <= Len(attempts)
    /\ media_recovered <= Len(attempts)
    /\ stderr = <<>>
    /\ Cardinality({i \in 1..Len(stdout) : stdout[i][1] = "Could not locate file"})
          <= Cardinality({i \in 1..Len(attempts) : attempts[i].outcome = "missing"})

\* C9 witness: a.b.Jpg was copied, and the run ended.
C9_Witness ==
    /\ pc = "done"
    /\ Len(attempts) = 1
    /\ attempts[1].outcome = "copied"
    /\ RecordAt(attempts[1].offset).filename = <<97, 46, 98, 46, 74, 112, 103>>

\* The attempts that copied a file.
Copied == {i \in 1..Len(attempts) : attempts[i].outcome = "copied"}

\* The records with a media name whose blob is in the backup directory.
Recoverable ==
    {i \in 1..Len(mbdb) :
        MediaName(mbdb[i][2].filename) /\ dict_get(mbdx, mbdb[i][1]) \in backup_files}

\* The count is the number of successful copies; records are visited in
\* ascending start offset, once each; the count printed at the end is the
\* number of recoverable records.
CountExact ==
    /\ media_recovered = Cardinality(Copied)
    /\ \A i, j \in 1..Len(attempts) : i < j => attempts[i].offset < attempts[j].offset
    /\ \A i, j \in 1..Len(mbdb) : i < j => mbdb[i][1] < mbdb[j][1]
    /\ pc = "done" =>
          /\ idx = Len(mbdb)
          /\ stdout[Len(stdout)] = <<"Recovered", Cardinality(Recoverable)>>

\* A step leaves the count alone or adds 1 to it, and adds 1 exactly when it
\* logs a successful copy.
CountStep ==
    /\ media_recovered' \in {media_recovered, media_recovered + 1}
    /\ media_recovered' = media_recovered + 1
          <=> /\ Len(attempts') = Len(attempts) + 1
              /\ attempts'[Len(attempts')].outcome = "copied"

\* C10: recovered_count never decreases, grows by 1 at each successful copy
\* and at no other step, and the count reported is the number of records with
\* an allow-listed extension whose blob exists.
C10_CountMonotonicExact == [](CountExact) /\ [][CountStep]_vars

\* C10 witness: a run over three records ended with one file recovered, one
\* blob missing and one record that is no media file.
C10_Witness ==
    /\ pc = "done"
    /\ media_recovered = 1
    /\ Len(attempts) = 2
    /\ Len(mbdb) = 3
    /\ stdout[Len(stdout)] = <<"Recovered", 1>>

====
